---- MODULE Spec2Model ----
(***************************************************************************)
(* Model of piot/platform-storage (src/src/lib.rs): BaseDirs, the          *)
(* per-purpose directory resolvers, the platform base resolvers, the path  *)
(* joiners and the ensure helpers.                                         *)
(*                                                                         *)
(* A string is a sequence of one-character strings.  A path (PathBuf) is   *)
(* the string it holds; PathBuf::push, Path::components and Path::parent   *)
(* are modelled on that string as the standard library computes them.      *)
(* Of the Windows path prefixes only the drive prefix ("C:") is modelled;  *)
(* the component ".." occurs in no input of the model.                     *)
(***************************************************************************)
EXTENDS Integers, Sequences, FiniteSets, TLC

VARIABLES
    os,         \* target_os the build was compiled for (cfg!/#[cfg])
    env,        \* process environment: variable name -> {} (unset) or {value}
    raw,        \* the three strings handed to BaseDirs::new (ghost)
    company,    \* BaseDirs.company
    app,        \* BaseDirs.app
    bundle_id,  \* BaseDirs.bundle_id
    dirs,       \* filesystem: the directories that exist (resolved nodes)
    files,      \* filesystem: the regular files that exist (resolved nodes)
    bad,        \* filesystem: nodes whose creation the OS refuses
    ret,        \* the last operation of the public interface and its result
    io,         \* ghost: outcome of the last fs::create_dir_all call
    thr         \* concurrent callers of ensure_dir, each inside create_dir_all

vars == <<os, env, raw, company, app, bundle_id, dirs, files, bad, ret, io, thr>>

\* ---------------------------------------------------------------- bounds
\* Longest company / app / bundle_id string handed to BaseDirs::new.
MaxLen == 2

\* ---------------------------------------------------------------- strings
OSFamilies == {"windows", "macos", "unix"}

EnvNames == {"HOME", "USERPROFILE", "LOCALAPPDATA",
             "XDG_CONFIG_HOME", "XDG_DATA_HOME", "XDG_STATE_HOME"}

\* The characters identity strings are drawn from: an uppercase letter and
\* the path separator.
Chars == {"B", "/"}

Upper == {"A", "B", "C", "D", "G", "L", "S", "U"}

Letters == Upper \cup {"a", "b", "c", "d", "h", "l", "s", "u", "x", "y", "z"}

RECURSIVE StringsUpTo(_)
StringsUpTo(n) ==
    IF n = 0 THEN {<<>>}
    ELSE LET S == StringsUpTo(n - 1)
         IN  S \cup {Append(s, c) : s \in {t \in S : Len(t) = n - 1}, c \in Chars}

Names == StringsUpTo(MaxLen)

\* char::to_lowercase on the characters of the model
LowerChar(ch) ==
    CASE ch = "A" -> "a" [] ch = "B" -> "b" [] ch = "C" -> "c"
      [] ch = "D" -> "d" [] ch = "G" -> "g" [] ch = "L" -> "l"
      [] ch = "S" -> "s" [] ch = "U" -> "u" [] OTHER -> ch

\* str::to_lowercase
to_lowercase(s) == [i \in 1..Len(s) |-> LowerChar(s[i])]

\* ---------------------------------------------------------------- literals
Lit_settings == <<"s", "e", "t", "t", "i", "n", "g", "s">>
Lit_saves == <<"s", "a", "v", "e", "s">>
Lit_logs == <<"l", "o", "g", "s">>
Lit_dot_config == <<".", "c", "o", "n", "f", "i", "g">>
Lit_dot_local == <<".", "l", "o", "c", "a", "l">>
Lit_share == <<"s", "h", "a", "r", "e">>
Lit_state == <<"s", "t", "a", "t", "e">>
Lit_Library == <<"L", "i", "b", "r", "a", "r", "y">>
Lit_Logs == <<"L", "o", "g", "s">>
Lit_Application_Support ==
    <<"A", "p", "p", "l", "i", "c", "a", "t", "i", "o", "n", " ",
      "S", "u", "p", "p", "o", "r", "t">>
Lit_Saved_Games == <<"S", "a", "v", "e", "d", " ", "G", "a", "m", "e", "s">>
Lit_root == <<"/">>
Lit_win_fallback ==
    <<"C", ":", "\\", "U", "s", "e", "r", "s", "\\", "D", "e", "f", "a", "u", "l", "t",
      "\\", "A", "p", "p", "D", "a", "t", "a", "\\", "L", "o", "c", "a", "l">>
Lit_tmp == <<"/", "t", "m", "p">>

\* ---------------------------------------------------------------- std::path
\* the element of a one-element set: Option::unwrap, and the result of an
\* operator applied to an argument that is evaluated once
value(opt) == CHOOSE v \in opt : TRUE

is_sep(o, ch) == ch = "/" \/ (o = "windows" /\ ch = "\\")

MAIN_SEP(o) == IF o = "windows" THEN "\\" ELSE "/"

\* length of the drive prefix of s (Windows only), 0 when there is none
prefix_len(o, s) ==
    IF o = "windows" /\ Len(s) >= 2 /\ s[1] \in Letters /\ s[2] = ":" THEN 2 ELSE 0

has_root(o, s) ==
    LET k == prefix_len(o, s) IN Len(s) > k /\ is_sep(o, s[k + 1])

is_absolute(o, s) ==
    IF o = "windows" THEN prefix_len(o, s) > 0 /\ has_root(o, s) ELSE has_root(o, s)

\* the maximal separator-free runs of s[i..], in order
RECURSIVE Runs(_, _, _, _)
Runs(o, s, i, cur) ==
    IF i > Len(s) THEN (IF cur = <<>> THEN <<>> ELSE <<cur>>)
    ELSE IF is_sep(o, s[i])
         THEN (IF cur = <<>> THEN <<>> ELSE <<cur>>) \o Runs(o, s, i + 1, <<>>)
         ELSE Runs(o, s, i + 1, Append(cur, s[i]))

RECURSIVE DropCurDir(_)
DropCurDir(rs) ==
    IF rs = <<>> THEN <<>>
    ELSE IF Head(rs) = <<".">> THEN DropCurDir(Tail(rs))
         ELSE <<Head(rs)>> \o DropCurDir(Tail(rs))

Comp(k, n) == [kind |-> k, name |-> n]

\* the components of the runs rs of a path with the given prefix and root
components_of_runs(pre, rooted, rs) ==
    LET root == IF rooted THEN <<Comp("RootDir", <<>>)>> ELSE <<>>
        cur  == IF ~rooted /\ rs # <<>> /\ Head(rs) = <<".">>
                THEN <<Comp("CurDir", <<>>)>> ELSE <<>>
    IN  value({pre \o root \o cur \o
                 [i \in 1..Len(norm) |->
                     Comp(IF norm[i] = <<".", ".">> THEN "ParentDir" ELSE "Normal",
                          norm[i])] :
               norm \in {DropCurDir(rs)}})

\* Path::components: Prefix, RootDir, a leading CurDir, then the Normal names
\* (ParentDir for ".."); repeated separators, a trailing separator and inner
\* "." are dropped.
components(o, path) ==
    value({components_of_runs(
               IF prefix_len(o, s) > 0
               THEN <<Comp("Prefix", SubSeq(s, 1, prefix_len(o, s)))>> ELSE <<>>,
               has_root(o, s), rs) :
           s \in {path}, rs \in {Runs(o, path, prefix_len(o, path) + 1, <<>>)}})

\* push on a path and a segment that are both known
push_segment(o, p, s) ==
    LET need_sep == p # <<>> /\ ~is_sep(o, p[Len(p)])
                    /\ ~(prefix_len(o, p) > 0 /\ prefix_len(o, p) = Len(p))
    IN  IF is_absolute(o, s) \/ prefix_len(o, s) > 0 THEN s
        ELSE IF has_root(o, s) THEN SubSeq(p, 1, prefix_len(o, p)) \o s
        ELSE IF need_sep THEN p \o <<MAIN_SEP(o)>> \o s
        ELSE p \o s

\* PathBuf::push
push(o, path, segment) ==
    value({push_segment(o, p, s) : p \in {path}, s \in {segment}})

\* Path::join
join(o, p, s) == push(o, p, s)

\* ---------------------------------------------------------------- environment
Unset == {}

Set(v) == {v}

\* env::var_os
var_os(name) == env[name]

\* ---------------------------------------------------------------- BaseDirs::new
BaseDirs_new_verbatim(c, a, b) == [company |-> c, app |-> a, bundle_id |-> b]

BaseDirs_new(c, a, b) ==
    [company |-> to_lowercase(c), app |-> to_lowercase(a), bundle_id |-> to_lowercase(b)]

\* ---------------------------------------------------------------- joiners
\* app_path without `p.push(app)`
app_path_skip_app(base, c, a, suffix) ==
    LET p1 == push(os, base, c)
    IN  IF suffix # {} THEN push(os, p1, value(suffix)) ELSE p1

\* Build ".../company/app[/suffix]"; suffix is {} (None) or {s} (Some(s))
app_path(base, c, a, suffix) ==
    LET p1 == push(os, base, c)
        p2 == push(os, p1, a)
    IN  IF suffix # {} THEN push(os, p2, value(suffix)) ELSE p2

\* Build ".../<bundle_id>[/suffix]"
bundle_path(base, b, suffix) ==
    LET p1 == push(os, base, b)
    IN  IF suffix # {} THEN push(os, p1, value(suffix)) ELSE p1

home ==
    LET v == IF os = "windows"
             THEN (IF var_os("USERPROFILE") # Unset THEN var_os("USERPROFILE")
                   ELSE var_os("HOME"))
             ELSE var_os("HOME")
    IN  IF v = Unset THEN Lit_root ELSE value(v)

\* ---------------------------------------------------------------- platform bases
win_localappdata_base ==
    IF var_os("LOCALAPPDATA") # Unset THEN value(var_os("LOCALAPPDATA"))
    ELSE Lit_win_fallback

win_saved_games_base == join(os, home, Lit_Saved_Games)

mac_app_support_base == join(os, join(os, home, Lit_Library), Lit_Application_Support)

mac_logs_base == join(os, join(os, home, Lit_Library), Lit_Logs)

xdg_config_home_base ==
    IF var_os("XDG_CONFIG_HOME") # Unset THEN value(var_os("XDG_CONFIG_HOME"))
    ELSE join(os, home, Lit_dot_config)

xdg_data_home_base_ignore_env == join(os, join(os, home, Lit_dot_local), Lit_share)

xdg_data_home_base ==
    IF var_os("XDG_DATA_HOME") # Unset THEN value(var_os("XDG_DATA_HOME"))
    ELSE join(os, join(os, home, Lit_dot_local), Lit_share)

xdg_state_home_base ==
    IF var_os("XDG_STATE_HOME") # Unset THEN value(var_os("XDG_STATE_HOME"))
    ELSE join(os, join(os, home, Lit_dot_local), Lit_state)

\* ---------------------------------------------------------------- purpose dirs
settings_dir ==
    CASE os = "windows" -> app_path(win_localappdata_base, company, app, {Lit_settings})
      [] os = "macos"   -> bundle_path(mac_app_support_base, bundle_id, {Lit_settings})
      [] os = "unix"    -> app_path(xdg_config_home_base, company, app, {})

saves_dir ==
    CASE os = "windows" -> app_path(win_saved_games_base, company, app, {})
      [] os = "macos"   -> bundle_path(mac_app_support_base, bundle_id, {Lit_saves})
      [] os = "unix"    -> app_path(xdg_data_home_base, company, app, {Lit_saves})

logs_dir ==
    CASE os = "windows" -> app_path(win_localappdata_base, company, app, {Lit_logs})
      [] os = "macos"   -> bundle_path(mac_logs_base, bundle_id, {})
      [] os = "unix"    -> app_path(xdg_state_home_base, company, app, {Lit_logs})

\* env::temp_dir: the directory the operating system provides
temp_dir == Lit_tmp

\* settings_path appending the name to the directory's string
settings_path_concat(name) == settings_dir \o name

settings_path(name) == join(os, settings_dir, name)

saves_path(name) == join(os, saves_dir, name)

logs_path(name) == join(os, logs_dir, name)

\* ---------------------------------------------------------------- filesystem
\* A node is the sequence of names from the filesystem root; <<>> is the root.
Cwd == << <<"w">> >>

\* the node a path names: relative paths start at the working directory, a
\* drive prefix is a directory below the (virtual) root
RECURSIVE Walk(_, _)
Walk(node, cs) ==
    IF cs = <<>> THEN node
    ELSE LET c == Head(cs)
         IN  CASE c.kind = "Normal"  -> Walk(Append(node, c.name), Tail(cs))
               [] c.kind = "Prefix"  -> Walk(<<c.name>>, Tail(cs))
               [] c.kind = "RootDir" -> Walk(IF node = Cwd THEN <<>> ELSE node, Tail(cs))
               [] c.kind = "ParentDir" ->
                    Walk(IF node = <<>> THEN node ELSE SubSeq(node, 1, Len(node) - 1),
                         Tail(cs))
               [] OTHER              -> Walk(node, Tail(cs))

Resolve(path) == value({Walk(Cwd, cs) : cs \in {path}})

Front(s) == SubSeq(s, 1, Len(s) - 1)

\* Path::parent: None ({}) for the empty path and for a path ending in a root
\* or a prefix, else the path without its last component
parent(cs) ==
    IF cs = <<>> \/ cs[Len(cs)].kind \in {"RootDir", "Prefix"} THEN {} ELSE {Front(cs)}

\* Path::is_dir
is_dir(d, cs) == cs # <<>> /\ Resolve(cs) \in d

\* mkdir(2) / CreateDirectory of one node: the error kind, or "Ok"
mkdir_node(d, f, b, node) ==
    LET missing == {k \in 1..(Len(node) - 1) : SubSeq(node, 1, k) \notin d}
        first   == CHOOSE k \in missing : \A j \in missing : k <= j
    IN  IF missing # {}
        THEN (IF SubSeq(node, 1, first) \in f THEN "NotADirectory" ELSE "NotFound")
        ELSE IF node = <<>> \/ node \in d \/ node \in f THEN "AlreadyExists"
        ELSE IF node \in b THEN "PermissionDenied"
        ELSE "Ok"

\* mkdir(2) / CreateDirectory on one path: the error kind, or "Ok"
mkdir_res(d, f, b, cs) ==
    IF cs = <<>> THEN "NotFound"
    ELSE value({mkdir_node(d, f, b, node) : node \in {Resolve(cs)}})

mkdir_dirs(d, f, b, cs) ==
    IF mkdir_res(d, f, b, cs) = "Ok" THEN d \cup {Resolve(cs)} ELSE d

FsOut(d, r) == [dirs |-> d, res |-> r]

\* create_dir_all giving up when mkdir fails on a directory that exists
tolerates_never(d, cs) == FALSE

\* create_dir_all: `Err(_) if path.is_dir() => Ok(())` after a failed mkdir
tolerates(d, cs) == is_dir(d, cs)

\* create_dir_all after the call for the parent returned up: the error of
\* that call, else the second mkdir of the path
after_parent(up, f, b, cs) ==
    IF up.res # "Ok" THEN up
    ELSE value({IF r2 = "Ok" THEN FsOut(up.dirs \cup {Resolve(cs)}, "Ok")
                ELSE IF tolerates(up.dirs, cs) THEN FsOut(up.dirs, "Ok")
                ELSE FsOut(up.dirs, r2) :
                r2 \in {mkdir_res(up.dirs, f, b, cs)}})

\* fs::create_dir_all, run to completion; r1 is the result of its first mkdir
RECURSIVE create_dir_all(_, _, _, _)
create_dir_all_from(d, f, b, cs, r1) ==
    IF r1 = "Ok" THEN FsOut(d \cup {Resolve(cs)}, "Ok")
    ELSE IF r1 = "NotFound"
         THEN IF parent(cs) = {} THEN FsOut(d, "Uncategorized")
              ELSE value({after_parent(up, f, b, cs) :
                             up \in {create_dir_all(d, f, b, value(parent(cs)))}})
    ELSE IF tolerates(d, cs) THEN FsOut(d, "Ok")
    ELSE FsOut(d, r1)

create_dir_all(d, f, b, path) ==
    IF path = <<>> THEN FsOut(d, "Ok")
    ELSE value({create_dir_all_from(d, f, b, cs, r1) :
                   cs \in {path}, r1 \in {mkdir_res(d, f, b, path)}})

\* fs::create_dir: one mkdir, no ancestors, an existing directory is an error
create_dir(d, f, b, cs) == FsOut(mkdir_dirs(d, f, b, cs), mkdir_res(d, f, b, cs))

\* ---------------------------------------------------------------- results
NoRet == [op |-> "none", arg |-> <<>>, kind |-> "none", val |-> <<>>, err |-> "Ok"]

RetPath(o, a, p) == [op |-> o, arg |-> a, kind |-> "path", val |-> p, err |-> "Ok"]

RetUnit(o, a) == [op |-> o, arg |-> a, kind |-> "unit", val |-> <<>>, err |-> "Ok"]

RetErr(o, a, e) == [op |-> o, arg |-> a, kind |-> "err", val |-> <<>>, err |-> e]

NoIo == [calls |-> 0, res |-> "Ok"]

IoOf(out) == [calls |-> 1, res |-> out.res]

\* ---------------------------------------------------------------- ensure helpers
\* the filesystem call of ensure_dir made with fs::create_dir
ensure_dir_call_single(d, f, b, cs) == create_dir(d, f, b, cs)

\* the filesystem call of ensure_dir: fs::create_dir_all(&dir)
ensure_dir_call(d, f, b, cs) == create_dir_all(d, f, b, cs)

\* ensure_dir swallowing the error of the call
ensure_dir_swallow(o, out, dir) == RetPath(o, <<>>, dir)

\* ensure_dir: `fs::create_dir_all(&dir)?; Ok(dir.as_ref().to_path_buf())`
ensure_dir(o, out, dir) ==
    IF out.res # "Ok" THEN RetErr(o, <<>>, out.res) ELSE RetPath(o, <<>>, dir)

\* ensure_parent_dir creating the path itself
ensure_parent_dir_target_self(cs) == IF cs = <<>> THEN {} ELSE {cs}

\* ensure_parent_dir: the directory handed to create_dir_all, if any
ensure_parent_dir_target(cs) == parent(cs)

\* ensure_parent_dir: `fs::create_dir_all(p)?` ... `Ok(())`
ensure_parent_dir(out, path) ==
    IF out.res # "Ok" THEN RetErr("ensure_parent_dir", path, out.res)
    ELSE RetUnit("ensure_parent_dir", path)

\* ---------------------------------------------------------------- inputs
Str_B == <<"B">>

\* values HOME takes: unset, set to the empty string, set to "/h"
HomeVals == {Unset, Set(<<>>), Set(<<"/", "h">>)}

\* values of the other variables: unset or one value each
UserProfileVals == {Unset, Set(<<"C", ":", "\\", "u">>)}

LocalAppDataVals == {Unset, Set(<<"D", ":", "\\", "l", "\\">>)}

XdgConfigVals == {Unset, Set(<<"/", "c">>)}

XdgDataVals == {Unset, Set(<<"d", "/">>)}

XdgStateVals == {Unset, Set(<<>>)}

\* file names handed to <purpose>_path
FileNames == {<<"s">>, <<"/", "s">>, <<>>}

\* paths handed to ensure_parent_dir
FilePaths == {<<>>, <<"/">>, <<"z">>, <<"x", "/", "z">>,
              <<"/", "t", "/", "x", "/", "y", "/", "z">>}

EnvOf(h, u, l, xc, xd, xs) ==
    [n \in EnvNames |->
        CASE n = "HOME" -> h
          [] n = "USERPROFILE" -> u
          [] n = "LOCALAPPDATA" -> l
          [] n = "XDG_CONFIG_HOME" -> xc
          [] n = "XDG_DATA_HOME" -> xd
          [] n = "XDG_STATE_HOME" -> xs]

\* the directories of a fresh filesystem: the root, the working directory and
\* (Windows) the drives
FreshDirs(o) ==
    {<<>>, Cwd} \cup (IF o = "windows" THEN {<< <<"C", ":">> >>, << <<"D", ":">> >>} ELSE {})

Callers == {"t1", "t2"}

IdleThreads ==
    [t \in Callers |->
        [pc |-> "idle", op |-> "none", target |-> <<>>, stack |-> <<>>, err |-> "Ok",
         lost |-> <<>>]]

\* the state after BaseDirs::new(c, a, b)
Constructed(c, a, b) ==
    LET id == BaseDirs_new(c, a, b)
    IN  /\ raw = [c |-> c, a |-> a, b |-> b]
        /\ company = id.company
        /\ app = id.app
        /\ bundle_id = id.bundle_id

\* ---------------------------------------------------------------- Init
\* Path computation: every identity string up to MaxLen for the fields the
\* family's resolvers use, every combination of set/unset for the variables
\* the family consults.
InitDirs ==
    /\ os \in OSFamilies
    /\ \E c \in Names, a \in Names, b \in Names :
          /\ os = "macos" => c = Str_B /\ a = Str_B
          /\ os # "macos" => b = Str_B
          /\ Constructed(c, a, b)
    /\ \E h \in HomeVals, u \in UserProfileVals, l \in LocalAppDataVals,
          xc \in XdgConfigVals, xd \in XdgDataVals, xs \in XdgStateVals :
          /\ os # "windows" => u = Unset /\ l = Unset
          /\ os # "unix" => xc = Unset /\ xd = Unset /\ xs = Unset
          /\ env = EnvOf(h, u, l, xc, xd, xs)
    /\ dirs = FreshDirs(os)
    /\ files = {}
    /\ bad = {}
    /\ ret = NoRet
    /\ io = NoIo
    /\ thr = IdleThreads

\* home(): every family, HOME and USERPROFILE each unset or any string up to MaxLen
InitHome ==
    /\ os \in OSFamilies
    /\ Constructed(Str_B, Str_B, Str_B)
    /\ \E h \in {Unset} \cup {Set(n) : n \in Names},
          u \in {Unset} \cup {Set(n) : n \in Names} :
          env = EnvOf(h, u, Unset, Unset, Unset, Unset)
    /\ dirs = FreshDirs(os)
    /\ files = {}
    /\ bad = {}
    /\ ret = NoRet
    /\ io = NoIo
    /\ thr = IdleThreads

\* ---------------------------------------------------------------- query operations
Frame == UNCHANGED <<os, env, raw, company, app, bundle_id, dirs, files, bad, io, thr>>

SettingsDir == ret' = RetPath("settings_dir", <<>>, settings_dir) /\ Frame

SavesDir == ret' = RetPath("saves_dir", <<>>, saves_dir) /\ Frame

LogsDir == ret' = RetPath("logs_dir", <<>>, logs_dir) /\ Frame

TempDir == ret' = RetPath("temp_dir", <<>>, temp_dir) /\ Frame

Home == ret' = RetPath("home", <<>>, home) /\ Frame

\* settings_path also creating the directory
SettingsPath_Creating == \E name \in FileNames :
    /\ ret' = RetPath("settings_path", name, settings_path(name))
    /\ dirs' = create_dir_all(dirs, files, bad, components(os, settings_dir)).dirs
    /\ UNCHANGED <<os, env, raw, company, app, bundle_id, files, bad, io, thr>>

SettingsPath == \E name \in FileNames :
    ret' = RetPath("settings_path", name, settings_path(name)) /\ Frame

SavesPath == \E name \in FileNames :
    ret' = RetPath("saves_path", name, saves_path(name)) /\ Frame

LogsPath == \E name \in FileNames :
    ret' = RetPath("logs_path", name, logs_path(name)) /\ Frame

NextDirs ==
    \/ SettingsDir \/ SavesDir \/ LogsDir \/ TempDir \/ Home
    \/ SettingsPath \/ SavesPath \/ LogsPath

SpecDirs == InitDirs /\ [][NextDirs]_vars

NextHome == Home

SpecHome == InitHome /\ [][NextHome]_vars

\* ---------------------------------------------------------------- path claims
N(name) == Comp("Normal", name)

\* a plain name: non-empty, no path separator, and one normal component of a
\* path (not ".", "..", or a drive prefix)
Plain(s) ==
    /\ s # <<>>
    /\ \A i \in 1..Len(s) : ~is_sep(os, s[i])
    /\ components(os, s) = <<N(s)>>

\* one or more normal components: not empty, no root, no prefix, no "."
RelNormal(s) ==
    LET cs == components(os, s)
    IN  cs # <<>> /\ \A i \in 1..Len(cs) : cs[i].kind = "Normal"

DirOps == {"settings_dir", "saves_dir", "logs_dir"}

IsProperPrefix(b, r) == Len(b) < Len(r) /\ SubSeq(r, 1, Len(b)) = b

\* the purpose suffix of the mapping, as components
SuffixOf(op) ==
    CASE op = "settings_dir" -> (IF os = "unix" THEN <<>> ELSE <<N(Lit_settings)>>)
      [] op = "saves_dir"    -> (IF os = "windows" THEN <<>> ELSE <<N(Lit_saves)>>)
      [] op = "logs_dir"     -> (IF os = "macos" THEN <<>> ELSE <<N(Lit_logs)>>)

\* the documented base root of a purpose, computed on components
DocBase(op) ==
    LET h == components(os, home)
        L == IF env["LOCALAPPDATA"] # Unset
             THEN components(os, value(env["LOCALAPPDATA"]))
             ELSE components(os, Lit_win_fallback)
        A == h \o <<N(Lit_Library), N(Lit_Application_Support)>>
        X(v, tail) == IF env[v] # Unset THEN components(os, value(env[v])) ELSE h \o tail
    IN  CASE os = "windows" ->
               (IF op = "saves_dir" THEN h \o <<N(Lit_Saved_Games)>> ELSE L)
          [] os = "macos" ->
               (IF op = "logs_dir" THEN h \o <<N(Lit_Library), N(Lit_Logs)>> ELSE A)
          [] os = "unix" ->
               (CASE op = "settings_dir" -> X("XDG_CONFIG_HOME", <<N(Lit_dot_config)>>)
                  [] op = "saves_dir" ->
                       X("XDG_DATA_HOME", <<N(Lit_dot_local), N(Lit_share)>>)
                  [] op = "logs_dir" ->
                       X("XDG_STATE_HOME", <<N(Lit_dot_local), N(Lit_state)>>))

\* the identity segments of the family, each as one component
IdSegments == IF os = "macos" THEN <<N(bundle_id)>> ELSE <<N(company), N(app)>>

BaseRoot(op) ==
    CASE os = "windows" ->
           (IF op = "saves_dir" THEN win_saved_games_base ELSE win_localappdata_base)
      [] os = "macos" ->
           (IF op = "logs_dir" THEN mac_logs_base ELSE mac_app_support_base)
      [] os = "unix" ->
           (CASE op = "settings_dir" -> xdg_config_home_base
              [] op = "saves_dir" -> xdg_data_home_base
              [] op = "logs_dir" -> xdg_state_home_base)

\* the identity fields the family's resolvers use
UsedFields == IF os = "macos" THEN <<bundle_id>> ELSE <<company, app>>

UsedComponents ==
    IF os = "macos" THEN components(os, bundle_id)
    ELSE components(os, company) \o components(os, app)

PathOps == {"settings_path", "saves_path", "logs_path"}

DirOfPathOp(op) ==
    CASE op = "settings_path" -> settings_dir
      [] op = "saves_path" -> saves_dir
      [] op = "logs_path" -> logs_dir

C3_HomeNeverEmpty ==
    ret.op = "home" =>
        /\ ret.val # <<>>
        /\ components(os, ret.val) # <<>>
        /\ (os = "windows" /\ env["USERPROFILE"] # Unset)
               => ret.val = value(env["USERPROFILE"])
        /\ (os = "windows" /\ env["USERPROFILE"] = Unset /\ env["HOME"] # Unset)
               => ret.val = value(env["HOME"])
        /\ (os # "windows" /\ env["HOME"] # Unset) => ret.val = value(env["HOME"])
        /\ (env["HOME"] = Unset /\ (os = "windows" => env["USERPROFILE"] = Unset))
               => ret.val = Lit_root

\* ---------------------------------------------------------------- ensure operations
\* ensure_settings_dir / ensure_saves_dir / ensure_logs_dir on directory dir
EnsureDirOp(o, dir) ==
    \E out \in {ensure_dir_call(dirs, files, bad, components(os, dir))} :
        /\ ret' = ensure_dir(o, out, dir)
        /\ dirs' = out.dirs
        /\ io' = IoOf(out)
        /\ UNCHANGED <<os, env, raw, company, app, bundle_id, files, bad, thr>>

EnsureSettingsDir == EnsureDirOp("ensure_settings_dir", settings_dir)

EnsureSavesDir == EnsureDirOp("ensure_saves_dir", saves_dir)

EnsureLogsDir == EnsureDirOp("ensure_logs_dir", logs_dir)

EnsureParentDir == \E path \in FilePaths :
    \E target \in {ensure_parent_dir_target(components(os, path))} :
    \E out \in {IF target = {} THEN FsOut(dirs, "Ok")
                ELSE create_dir_all(dirs, files, bad, value(target))} :
        /\ ret' = ensure_parent_dir(out, path)
        /\ dirs' = out.dirs
        /\ io' = IF target = {} THEN NoIo ELSE IoOf(out)
        /\ UNCHANGED <<os, env, raw, company, app, bundle_id, files, bad, thr>>

\* ---------------------------------------------------------------- Init (filesystem)
\* identities handed to BaseDirs::new: plain, empty, and with separators
FsIdentities ==
    { [c |-> <<"B">>, a |-> <<"B", "B">>, b |-> <<"B">>],
      [c |-> <<>>, a |-> <<>>, b |-> <<>>],
      [c |-> <<"B", "/">>, a |-> <<"B", "/", "B">>, b |-> <<"/", "B">>] }

\* the node below the root (or below the working directory) on the way to node
FirstBelow(node) ==
    IF Len(node) > Len(Cwd) /\ SubSeq(node, 1, Len(Cwd)) = Cwd
    THEN SubSeq(node, 1, Len(Cwd) + 1)
    ELSE SubSeq(node, 1, 1)

Node_t == << <<"t">> >>

Node_t_x == << <<"t">>, <<"x">> >>

\* what is wrong with the filesystem at the start: nothing; nodes the OS
\* refuses to create (the settings directory itself and /t/x); regular files
\* where a directory is needed (on the way to the saves directory and at /t)
Faults ==
    LET st == Resolve(components(os, settings_dir))
        sv == Resolve(components(os, saves_dir))
    IN  {[files |-> {}, bad |-> {}],
         [files |-> {}, bad |-> {st, Node_t_x} \ FreshDirs(os)],
         [files |-> {FirstBelow(sv), Node_t} \ FreshDirs(os), bad |-> {}]}

\* the environments of the filesystem runs: nothing set; (Unix) the XDG
\* variables set to an empty and to a relative value; (Windows) HOME and
\* LOCALAPPDATA set; (macOS) HOME set
FsEnvs ==
    CASE os = "unix" ->
           {EnvOf(Unset, Unset, Unset, Unset, Unset, Unset),
            EnvOf(Unset, Unset, Unset, Set(<<>>), Set(<<"d", "/">>), Unset)}
      [] os = "windows" ->
           {EnvOf(Set(<<"/", "h">>), Unset, Set(<<"D", ":", "\\", "l", "\\">>),
                  Unset, Unset, Unset)}
      [] os = "macos" ->
           {EnvOf(Set(<<"/", "h">>), Unset, Unset, Unset, Unset, Unset)}

Init ==
    /\ os \in OSFamilies
    /\ \E id \in FsIdentities : Constructed(id.c, id.a, id.b)
    /\ env \in FsEnvs
    /\ \E fault \in Faults :
          /\ files = fault.files
          /\ bad = fault.bad
    /\ dirs = FreshDirs(os)
    /\ ret = NoRet
    /\ io = NoIo
    /\ thr = IdleThreads

Next ==
    \/ SettingsDir \/ SavesDir \/ LogsDir \/ TempDir \/ Home
    \/ SettingsPath \/ SavesPath \/ LogsPath
    \/ EnsureSettingsDir \/ EnsureSavesDir \/ EnsureLogsDir \/ EnsureParentDir

Spec == Init /\ [][Next]_vars

\* ---------------------------------------------------------------- identity claims
NoUpper(s) == \A i \in 1..Len(s) : s[i] \notin Upper

\* C2: after construction with (c, a, b) and after any sequence of operations,
\* company = lowercase(c), app = lowercase(a), bundle_id = lowercase(b), and no
\* field holds an uppercase character.
C2_FieldsLowercaseForever ==
    /\ company = to_lowercase(raw.c) /\ NoUpper(company)
    /\ app = to_lowercase(raw.a) /\ NoUpper(app)
    /\ bundle_id = to_lowercase(raw.b) /\ NoUpper(bundle_id)
    /\ Len(company) = Len(raw.c) /\ Len(app) = Len(raw.a) /\ Len(bundle_id) = Len(raw.b)

C2_Witness ==
    /\ ret.op = "ensure_saves_dir" /\ ret.kind = "path"
    /\ ~NoUpper(raw.c) /\ ~NoUpper(raw.a) /\ ~NoUpper(raw.b)

\* ---------------------------------------------------------------- filesystem claims
EnsureDirOps == {"ensure_settings_dir", "ensure_saves_dir", "ensure_logs_dir"}

EnsureOps == EnsureDirOps \cup {"ensure_parent_dir"}

QueryOps == {"settings_dir", "saves_dir", "logs_dir", "temp_dir", "home",
             "settings_path", "saves_path", "logs_path"}

DirOfEnsureOp(op) ==
    CASE op = "ensure_settings_dir" -> settings_dir
      [] op = "ensure_saves_dir" -> saves_dir
      [] op = "ensure_logs_dir" -> logs_dir

\* a node and all its ancestors
Prefixes(node) == {SubSeq(node, 1, k) : k \in 0..Len(node)}

\* the filesystem lets the directory and every ancestor be created: no regular
\* file and no refused node on the way
CreationPossible(cs) ==
    \A node \in {Resolve(cs)} :
        \A n \in Prefixes(node) : n \notin files /\ n \notin bad

\* what an ensure_<purpose>_dir call and a second one in succession must give
EnsureIdempotentAt(op) ==
    \A dir \in {DirOfEnsureOp(op)} : \A cs \in {components(os, dir)} :
    \A again \in {ensure_dir_call(dirs, files, bad, cs)} :
        /\ ret.kind = "path"
        /\ ret.val = dir
        /\ Prefixes(Resolve(cs)) \subseteq dirs
        /\ is_dir(dirs, cs)
        /\ again.res = "Ok"
        /\ again.dirs = dirs
        /\ ensure_dir(op, again, dir) = ret

\* C5 as stated: from any filesystem state in which creation is possible,
\* ensure_<purpose>_dir creates the directory with its ancestors and returns
\* <purpose>_dir(); a second call succeeds, returns the same path, changes
\* nothing, and the directory exists.
C5_EnsureIdempotent ==
    (ret.op \in EnsureDirOps /\ CreationPossible(components(os, DirOfEnsureOp(ret.op))))
        => EnsureIdempotentAt(ret.op)

\* C5 amended: the same, provided the purpose path is not the empty path.
C5_EnsureIdempotentNonEmptyPath ==
    (/\ ret.op \in EnsureDirOps
     /\ CreationPossible(components(os, DirOfEnsureOp(ret.op)))
     /\ components(os, DirOfEnsureOp(ret.op)) # <<>>)
        => EnsureIdempotentAt(ret.op)

C5_Witness ==
    /\ ret.op = "ensure_logs_dir" /\ ret.kind = "path"
    /\ components(os, logs_dir) # <<>>
    /\ CreationPossible(components(os, logs_dir))
    /\ Resolve(components(os, logs_dir)) \notin FreshDirs(os)
    /\ Resolve(components(os, logs_dir)) \in dirs

\* C6: ensure_parent_dir(path), for a path whose last component is a file
\* name, creates every missing ancestor up to and including the parent and
\* nothing else, never an entry at the path itself; without a parent component
\* it succeeds and changes nothing.
C6_ParentOnly ==
    [][ret'.op = "ensure_parent_dir" =>
          \A cs \in {components(os, ret'.arg)} : \A tgt \in {parent(cs)} :
              /\ files' = files
              /\ Resolve(cs) \notin (dirs' \ dirs)
              /\ tgt = {} => (dirs' = dirs /\ ret'.kind = "unit")
              /\ (tgt # {} /\ CreationPossible(value(tgt))) =>
                    \A up \in {Prefixes(Resolve(value(tgt)))} :
                        /\ ret'.kind = "unit"
                        /\ up \subseteq dirs'
                        /\ (dirs' \ dirs) \subseteq up]_vars

C6_Witness ==
    /\ ret.op = "ensure_parent_dir" /\ ret.kind = "unit"
    /\ ret.arg = <<"/", "t", "/", "x", "/", "y", "/", "z">>
    /\ << <<"t">>, <<"x">>, <<"y">> >> \in dirs
    /\ << <<"t">>, <<"x">>, <<"y">>, <<"z">> >> \notin dirs

\* C7: only the ensure operations return an error, and then exactly the error
\* of their one create_dir_all call, leaving in place what that call created;
\* every query operation returns a path.
C7_ErrorsOnlyFromEnsure ==
    /\ [](/\ ret.kind = "err" =>
               (ret.op \in EnsureOps /\ io.calls = 1 /\ ret.err = io.res
                  /\ io.res # "Ok")
          /\ (ret.op \in EnsureOps /\ io.calls = 1 /\ io.res # "Ok") =>
               (ret.kind = "err" /\ ret.err = io.res)
          /\ ret.op \in EnsureOps => io.calls <= 1
          /\ ret.op \in QueryOps => ret.kind = "path")
    /\ [][dirs \subseteq dirs']_vars

C7_Witness ==
    /\ ret.op = "ensure_settings_dir" /\ ret.kind = "err"
    /\ ret.err = "PermissionDenied"
    /\ dirs # FreshDirs(os)

\* C9: the only change any operation makes to the filesystem is that an
\* ensure operation adds directories; no file is created or removed, no
\* directory is removed, the environment is never written, and the query
\* operations change neither.
C9_OnlyEnsureAddsDirectories ==
    [][/\ files' = files
       /\ env' = env
       /\ bad' = bad
       /\ dirs \subseteq dirs'
       /\ dirs' # dirs => ret'.op \in EnsureOps
       /\ ret'.op \in QueryOps => dirs' = dirs]_vars

C9_Witness ==
    /\ ret.op = "settings_path"
    /\ dirs # FreshDirs(os)

\* ---------------------------------------------------------------- concurrent callers
\* Each caller runs one ensure operation; inside fs::create_dir_all it takes one
\* system call (mkdir, or the stat of is_dir) per step.  The stack holds the
\* paths of the nested create_dir_all calls: phase 1 is before the first mkdir
\* of a path, phase 2 is after the call for its parent has returned.  lost is
\* the last directory whose mkdir failed and which is_dir then found.
ConcPath == <<"/", "t", "/", "x", "/", "y", "/", "z">>

Frame1(cs) == [cs |-> cs, phase |-> 1]

\* the directory an ensure operation hands to create_dir_all, {} if none
TargetOf(op) ==
    IF op = "ensure_parent_dir" THEN ensure_parent_dir_target(components(os, ConcPath))
    ELSE {components(os, DirOfEnsureOp(op))}

\* a nested create_dir_all call returns Ok to its caller
Returned(t, st) ==
    IF Len(st) = 1
    THEN [thr EXCEPT ![t].pc = "done", ![t].stack = <<>>]
    ELSE [thr EXCEPT ![t].pc = "mkdir", ![t].stack = Front(st)]

Call(t) == \E op \in EnsureOps :
    /\ thr[t].pc = "idle"
    /\ thr' = IF TargetOf(op) = {}
              THEN [thr EXCEPT ![t].pc = "done", ![t].op = op]
              ELSE [thr EXCEPT ![t].pc = "mkdir", ![t].op = op,
                               ![t].target = value(TargetOf(op)),
                               ![t].stack = <<Frame1(value(TargetOf(op)))>>]
    /\ UNCHANGED <<os, env, raw, company, app, bundle_id, dirs, files, bad, ret, io>>

StepMkdir(t) ==
    /\ thr[t].pc = "mkdir"
    /\ LET st  == thr[t].stack
           top == st[Len(st)]
           r   == mkdir_res(dirs, files, bad, top.cs)
       IN  IF top.cs = <<>>
           THEN thr' = Returned(t, st) /\ dirs' = dirs
           ELSE IF r = "Ok"
           THEN thr' = Returned(t, st) /\ dirs' = mkdir_dirs(dirs, files, bad, top.cs)
           ELSE IF r = "NotFound" /\ top.phase = 1
           THEN /\ dirs' = dirs
                /\ thr' = IF parent(top.cs) = {}
                          THEN [thr EXCEPT ![t].pc = "failed", ![t].err = "Uncategorized"]
                          ELSE [thr EXCEPT ![t].stack =
                                   Append(Front(st), [top EXCEPT !.phase = 2])
                                       \o <<Frame1(value(parent(top.cs)))>>]
           ELSE /\ dirs' = dirs
                /\ thr' = [thr EXCEPT ![t].pc = "stat", ![t].err = r]
    /\ UNCHANGED <<os, env, raw, company, app, bundle_id, files, bad, ret, io>>

StepStat(t) ==
    /\ thr[t].pc = "stat"
    /\ LET st  == thr[t].stack
           top == st[Len(st)]
       IN  thr' = IF tolerates(dirs, top.cs)
                  THEN [Returned(t, st) EXCEPT ![t].err = "Ok",
                                               ![t].lost = Resolve(top.cs)]
                  ELSE [thr EXCEPT ![t].pc = "failed"]
    /\ UNCHANGED <<os, env, raw, company, app, bundle_id, dirs, files, bad, ret, io>>

InitConc ==
    /\ os \in OSFamilies
    /\ \E id \in FsIdentities : Constructed(id.c, id.a, id.b)
    /\ env \in FsEnvs
    /\ files = {}
    /\ bad = {}
    /\ dirs = FreshDirs(os)
    /\ ret = NoRet
    /\ io = NoIo
    /\ thr = IdleThreads

NextConc == \E t \in Callers : Call(t) \/ StepMkdir(t) \/ StepStat(t)

SpecConc == InitConc /\ [][NextConc]_vars

\* C8: under every interleaving of the callers' system calls no caller's
\* ensure operation fails, and when a caller has returned its directory exists
\* with all its ancestors.
C8_ConcurrentEnsureSucceeds ==
    \A t \in Callers :
        /\ thr[t].pc # "failed"
        /\ thr[t].pc = "done" => Prefixes(Resolve(thr[t].target)) \subseteq dirs

\* both callers returned, and one of them found a directory of its tree
\* created by the other between its two system calls
C8_Witness ==
    /\ \A t \in Callers : thr[t].pc = "done" /\ thr[t].target # <<>>
    /\ \E t \in Callers : thr[t].lost \notin FreshDirs(os)

====
